---- MODULE Spec2Model ----
(***************************************************************************)
(* The multi-crate item walker of rustdoc-rag (src/main.rs, start_krate /  *)
(* item_explorer / module_explorer / enum_explorer) and the struct emitter *)
(* it calls (src/document_struct.rs), as a state machine.                  *)
(*                                                                         *)
(* The recursion of item_explorer is unfolded into an explicit call stack: *)
(* `call` holds the arguments of an item_explorer invocation that is about *)
(* to run, `stack` holds the module_explorer / enum_explorer loops that    *)
(* are suspended in a recursive call.  A panic (todo!(), unwrap on None)   *)
(* ends the traversal in pc = "aborted".                                   *)
(***************************************************************************)
EXTENDS Integers, Sequences, FiniteSets, TLC

\* ------------------------------------------------------------------------
\* Bounds of the model
\* ------------------------------------------------------------------------

\* Symbol ids that an index may hold or an item may reference: 0..MaxId.
MaxId == 2

\* Longest child list of a root module; nested lists are one shorter.
MaxItems == 2

\* Counters of dispatches and of emitter calls saturate here.
CountCap == 2

\* Deepest stack of suspended module_explorer / enum_explorer loops.
MaxDepth == 8

\* ------------------------------------------------------------------------
\* Program constants
\* ------------------------------------------------------------------------

\* rustdoc_types::Id(u32::MAX), the id used to enter a dependency.  TLC's
\* integers are 32-bit signed, so the largest of them stands for u32::MAX;
\* no arithmetic is done on ids, only equality and index lookup.
U32Max == 2147483647

\* ------------------------------------------------------------------------
\* Option<T>: None is the empty sequence, Some(x) the one-element sequence
\* ------------------------------------------------------------------------

None == << >>

Some(x) == << x >>

IsSome(o) == o # << >>

Unwrap(o) == o[1]

\* ------------------------------------------------------------------------
\* rustdoc_types::ItemEnum, and the arm of item_explorer's match it takes
\* ------------------------------------------------------------------------

NoOpKinds ==
    { "StructField", "Variant", "Function", "Trait", "Impl", "TypeAlias",
      "Constant", "Static", "Macro", "ProcMacro", "AssocType" }

TodoKinds ==
    { "ExternCrate", "Union", "TraitAlias", "ExternType", "Primitive",
      "AssocConst" }

Kinds == { "Module", "Use", "Struct", "Enum" } \cup NoOpKinds \cup TodoKinds

\* A mutant of Arm: the unsupported kinds are skipped like the no-op kinds.
ArmSkipsTodo(kind) ==
    CASE kind = "Module" -> "module"
      [] kind = "Use"    -> "use"
      [] kind = "Struct" -> "struct"
      [] kind = "Enum"   -> "enum"
      [] OTHER           -> "noop"

\* A mutant of Arm: an enum is a leaf, its variants are not walked.
ArmEnumIsLeaf(kind) ==
    CASE kind = "Module" -> "module"
      [] kind = "Use"    -> "use"
      [] kind = "Struct" -> "struct"
      [] kind \in { "ExternCrate", "Union", "TraitAlias", "ExternType",
                    "Primitive", "AssocConst" } -> "todo"
      [] OTHER           -> "noop"

\* A mutant of Arm: a struct is a leaf, document_struct is not called.
ArmStructIsLeaf(kind) ==
    CASE kind = "Module" -> "module"
      [] kind = "Use"    -> "use"
      [] kind = "Enum"   -> "enum"
      [] kind \in { "ExternCrate", "Union", "TraitAlias", "ExternType",
                    "Primitive", "AssocConst" } -> "todo"
      [] OTHER           -> "noop"

\* The arm of `match &item.inner` taken for a kind.
Arm(kind) ==
    CASE kind = "Module"      -> "module"
      [] kind = "ExternCrate" -> "todo"
      [] kind = "Use"         -> "use"
      [] kind = "Union"       -> "todo"
      [] kind = "Struct"      -> "struct"
      [] kind = "StructField" -> "noop"
      [] kind = "Enum"        -> "enum"
      [] kind = "Variant"     -> "noop"
      [] kind = "Function"    -> "noop"
      [] kind = "Trait"       -> "noop"
      [] kind = "TraitAlias"  -> "todo"
      [] kind = "Impl"        -> "noop"
      [] kind = "TypeAlias"   -> "noop"
      [] kind = "Constant"    -> "noop"
      [] kind = "Static"      -> "noop"
      [] kind = "ExternType"  -> "todo"
      [] kind = "Macro"       -> "noop"
      [] kind = "ProcMacro"   -> "noop"
      [] kind = "Primitive"   -> "todo"
      [] kind = "AssocConst"  -> "todo"
      [] kind = "AssocType"   -> "noop"

\* ------------------------------------------------------------------------
\* Items and crates (the read-only input)
\* ------------------------------------------------------------------------

Ids == 0 .. MaxId

OptIds == { None } \cup { Some(i) : i \in Ids }

\* Sequences over S of length at most n.
SeqsUpTo(S, n) == UNION { [1 .. k -> S] : k \in 0 .. n }

\* `Use::source` split on "::" (never empty: split yields at least one piece).
Sources ==
    { << "crate", "a" >>, << "super", "a" >>, << "dep" >>,
      << "dep", "a", "b" >>, << "bevy", "a" >>, << "std", "a" >> }

\* rustdoc_types::Item: id, name, docs and the kind-specific payload.
Item(id, name, docs, inner) ==
    [ id |-> id, name |-> name, docs |-> docs, inner |-> inner ]

ModuleInner(items) == [ kind |-> "Module", items |-> items ]

EnumInner(variants) == [ kind |-> "Enum", variants |-> variants ]

UseInner(source, id) == [ kind |-> "Use", source |-> source, id |-> id ]

StructInner(skind, fields) ==
    [ kind |-> "Struct", skind |-> skind, fields |-> fields ]

LeafInner(kind) == [ kind |-> kind ]

\* Every payload the walker distinguishes, with child lists up to length n.
Inners(n) ==
    { ModuleInner(s) : s \in SeqsUpTo(Ids, n) }
    \cup { EnumInner(s) : s \in SeqsUpTo(Ids, n) }
    \cup { UseInner(src, oid) : src \in Sources, oid \in OptIds }
    \cup { StructInner("Unit", << >>), StructInner("Tuple", << 1 >>) }
    \cup { StructInner("Plain", s) : s \in SeqsUpTo(1 .. MaxId, n + 1) }
    \cup { LeafInner(k) : k \in NoOpKinds \cup TodoKinds }

\* An index entry before it gets its id: a name and a payload.
Entry(name, inner) == [ name |-> name, inner |-> inner ]

\* The names an item of this payload may carry: only the emitter reads them,
\* for a struct and for its fields.  A struct without a name panics before
\* its kind is looked at, so one kind of nameless struct is enough.
NamesFor(inner) ==
    CASE inner.kind = "StructField" -> { None, Some("S") }
      [] inner.kind = "Struct" ->
           IF inner.skind = "Unit" THEN { None, Some("S") } ELSE { Some("S") }
      [] OTHER -> { Some("n") }

\* Every entry the walker distinguishes, with child lists up to length n.
AllEntries(n) == { Entry(nm, inn) : nm \in { None, Some("S"), Some("n") },
                                    inn \in Inners(n) }

FullEntries(n) == { e \in AllEntries(n) : e.name \in NamesFor(e.inner) }

\* The entries of id 2 of the primary crate: a struct, and a nameless enum
\* variant.
ContextEntries ==
    { Entry(Some("T"), StructInner("Unit", << >>)),
      Entry(None, LeafInner("Variant")) }

\* The entries of the ids above 2 of the primary crate.
FillerEntries == { Entry(Some("T"), StructInner("Unit", << >>)) }

\* Item::docs of an entry: the items named "S" are documented.
DocsFor(entry) == IF entry.name = Some("S") THEN Some("doc S") ELSE None

\* The entries of a dependency's id 1: a re-export back into the primary
\* crate, or a struct.
DepEntries ==
    { Entry(Some("n"), UseInner(<< "bevy", "a" >>, None)),
      Entry(Some("S"), StructInner("Unit", << >>)) }

Opt(S) == { None } \cup { Some(x) : x \in S }

\* rustdoc_types::Crate, reduced to the fields the walker reads: the root id
\* and the index.  As in every rustdoc output the root id is in the index
\* and names a module, each item carries its own id, and no item has the
\* id u32::MAX.  Ids that are listed or re-exported may be missing.
MkCrate(rootItems, entries) ==
    LET present == { i \in DOMAIN entries : entries[i] # None }
    IN  [ root  |-> 0,
          index |-> [ i \in { 0 } \cup present |->
                        IF i = 0
                        THEN Item(0, Some("n"), None, ModuleInner(rootItems))
                        ELSE Item(i, Unwrap(entries[i]).name,
                                  DocsFor(Unwrap(entries[i])),
                                  Unwrap(entries[i]).inner) ] ]

\* An entry of S, or no entry when S is empty.
Filled(S) == IF S = { } THEN { None } ELSE { Some(e) : e \in S }

\* The crates with root child lists in rootSeqs: id 1 holds an entry of
\* `first` or is missing, id 2 an entry of `second` or is missing, every
\* other id holds an entry of `rest`.
CrateSet(rootSeqs, first, second, rest) ==
    { MkCrate(r, [ i \in 1 .. MaxId |->
                     IF i = 1 THEN e1 ELSE IF i = 2 THEN e2 ELSE es[i] ]) :
        r \in rootSeqs, e1 \in Opt(first), e2 \in Opt(second),
        es \in [ 3 .. MaxId -> Filled(rest) ] }

\* The primary crate: the root module lists up to MaxItems of the other ids
\* (a nested module may list the root), id 1 holds any entry.
PrimaryCrates ==
    CrateSet(SeqsUpTo(1 .. MaxId, MaxItems), FullEntries(MaxItems - 1),
             ContextEntries, FillerEntries)

DepCrates == CrateSet({ << 1 >> }, DepEntries, { }, { })

\* A dependency that carries the name of the primary crate: its root lists
\* one struct.
HomonymCrates ==
    { MkCrate(<< 1 >>,
              [ i \in 1 .. MaxId |->
                  IF i = 1
                  THEN Some(Entry(Some("S"), StructInner("Unit", << >>)))
                  ELSE None ]) }

\* loaded_crates: slot 0 is Some(("bevy", krate)); a dependency slot is None
\* when its json was not found, else Some((name, krate)).
Catalogs ==
    { [ u \in 0 .. 1 |-> IF u = 0 THEN Some(<< "bevy", k >>) ELSE d ] :
        k \in PrimaryCrates,
        d \in { None } \cup { Some(<< "dep", dk >>) : dk \in DepCrates }
                       \cup { Some(<< "bevy", dk >>) : dk \in HomonymCrates } }

\* ------------------------------------------------------------------------
\* State
\* ------------------------------------------------------------------------

VARIABLES
    crates,      \* loaded_crates, the catalog (read-only during the walk)
    visited,     \* HashSet<(usize, Id)>, as pairs << crate, id >>
    pc,          \* "start", "call", "loop", "done" or "aborted"
    call,        \* Some([id, crate]): the item_explorer call about to run
    stack,       \* suspended module_explorer / enum_explorer loops, top last
    dispatched,  \* how often `match &item.inner` ran, per call and item
    emitted,     \* how often document_struct was called, per crate and item
    written,     \* how often StructDocument::write ran, per document
    panic        \* Some(reason) once the traversal has panicked

vars ==
    << crates, visited, pc, call, stack, dispatched, emitted, written, panic >>

\* ------------------------------------------------------------------------
\* Helpers
\* ------------------------------------------------------------------------

Min(a, b) == IF a < b THEN a ELSE b

\* One more occurrence of k in a counting map (saturating at CountCap).
Bump(bag, k) ==
    IF k \in DOMAIN bag
    THEN [ bag EXCEPT ![k] = Min(@ + 1, CountCap) ]
    ELSE [ x \in DOMAIN bag \cup { k } |-> IF x = k THEN 1 ELSE bag[x] ]

EmptyBag == [ x \in { } |-> 0 ]

\* crates.get(c): None when c is out of range.
Slot(c) == IF c \in DOMAIN crates THEN crates[c] ELSE None

\* `crates[c].as_ref().unwrap()` : the pair (name, krate).
KrateName(c) == Unwrap(crates[c])[1]

Krate(c) == Unwrap(crates[c])[2]

\* krate.index.get(&id)
IndexGet(krate, id) ==
    IF id \in DOMAIN krate.index THEN Some(krate.index[id]) ELSE None

\* A mutant of Lookup: no fallback to the root item.
LookupNoFallback(krate, id) == IndexGet(krate, id)

\* A mutant of Lookup: the test of the lookup is inverted.
LookupInverted(krate, id) ==
    IF IsSome(IndexGet(krate, id))
    THEN IndexGet(krate, krate.root)
    ELSE IndexGet(krate, id)

\* The item item_explorer dispatches on: index.get(&id), else the root item.
\* None stands for the panic of the unwrap on the root lookup.
Lookup(krate, id) ==
    IF IsSome(IndexGet(krate, id))
    THEN IndexGet(krate, id)
    ELSE IndexGet(krate, krate.root)

\* used.source.split("::").next().unwrap()
CrateNameOf(source) == Head(source)

\* A mutant of FindCrate: the last present slot of that name wins.
FindCrateLast(crate_name) ==
    LET hits == { i \in DOMAIN crates :
                    IsSome(crates[i]) /\ KrateName(i) = crate_name }
    IN  { i \in hits : \A j \in hits : i >= j }

\* The first present slot whose name is crate_name, as a set: empty when the
\* for loop over crates.iter().enumerate() finds none.
FindCrate(crate_name) ==
    LET hits == { i \in DOMAIN crates :
                    IsSome(crates[i]) /\ KrateName(i) = crate_name }
    IN  { i \in hits : \A j \in hits : i <= j }

\* A mutant of UseTarget: the index of the matching slot is off by one.
UseTargetOffByOne(used, current_crate) ==
    LET crate_name == CrateNameOf(used.source)
    IN  IF crate_name = "crate" \/ crate_name = "super"
        THEN [ crate |-> current_crate, id |-> used.id ]
        ELSE IF FindCrate(crate_name) # { }
             THEN [ crate |-> (CHOOSE i \in FindCrate(crate_name) : TRUE) + 1,
                    id    |-> Some(U32Max) ]
             ELSE [ crate |-> current_crate, id |-> used.id ]

\* A mutant of UseTarget: the pre-resolved id is followed into the named
\* crate instead of entering that crate at the sentinel id.
UseTargetKeepsId(used, current_crate) ==
    LET crate_name == CrateNameOf(used.source)
    IN  IF crate_name = "crate" \/ crate_name = "super"
        THEN [ crate |-> current_crate, id |-> used.id ]
        ELSE IF FindCrate(crate_name) # { }
             THEN [ crate |-> CHOOSE i \in FindCrate(crate_name) : TRUE,
                    id    |-> used.id ]
             ELSE [ crate |-> current_crate, id |-> used.id ]

\* A mutant of UseTarget: a same-crate re-export enters the crate at the
\* sentinel id instead of following the pre-resolved id.
UseTargetCrateAtRoot(used, current_crate) ==
    LET crate_name == CrateNameOf(used.source)
    IN  IF crate_name = "crate" \/ crate_name = "super"
        THEN [ crate |-> current_crate, id |-> Some(U32Max) ]
        ELSE IF FindCrate(crate_name) # { }
             THEN [ crate |-> CHOOSE i \in FindCrate(crate_name) : TRUE,
                    id    |-> Some(U32Max) ]
             ELSE [ crate |-> current_crate, id |-> used.id ]

\* A mutant of UseTarget: an unmatched first segment enters the current
\* crate at the sentinel id.
UseTargetUnmatchedAtRoot(used, current_crate) ==
    LET crate_name == CrateNameOf(used.source)
    IN  IF crate_name = "crate" \/ crate_name = "super"
        THEN [ crate |-> current_crate, id |-> used.id ]
        ELSE IF FindCrate(crate_name) # { }
             THEN [ crate |-> CHOOSE i \in FindCrate(crate_name) : TRUE,
                    id    |-> Some(U32Max) ]
             ELSE [ crate |-> current_crate, id |-> Some(U32Max) ]

\* A mutant of UseTarget: a missing pre-resolved id falls back to the
\* sentinel id instead of panicking.
UseTargetDefaultsId(used, current_crate) ==
    LET crate_name == CrateNameOf(used.source)
        id == IF IsSome(used.id) THEN used.id ELSE Some(U32Max)
    IN  IF crate_name = "crate" \/ crate_name = "super"
        THEN [ crate |-> current_crate, id |-> id ]
        ELSE IF FindCrate(crate_name) # { }
             THEN [ crate |-> CHOOSE i \in FindCrate(crate_name) : TRUE,
                    id    |-> Some(U32Max) ]
             ELSE [ crate |-> current_crate, id |-> id ]

\* The Use arm: the arguments of the item_explorer call it returns.  The id
\* is still an Option here: None is where used.id.unwrap() panics.
UseTarget(used, current_crate) ==
    LET crate_name == CrateNameOf(used.source)
    IN  IF crate_name = "crate" \/ crate_name = "super"
        THEN [ crate |-> current_crate, id |-> used.id ]
        ELSE IF FindCrate(crate_name) # { }
             THEN [ crate |-> CHOOSE i \in FindCrate(crate_name) : TRUE,
                    id    |-> Some(U32Max) ]
             ELSE [ crate |-> current_crate, id |-> used.id ]

\* ------------------------------------------------------------------------
\* document_struct (src/document_struct.rs)
\* ------------------------------------------------------------------------

\* A mutant of FieldOf: a missing field id falls back to the root item.
FieldOfWithFallback(field, current_crate) ==
    IF Slot(current_crate) = None
    THEN None
    ELSE LET found == Lookup(Krate(current_crate), field)
         IN  IF found = None \/ Unwrap(found).name = None
             THEN None
             ELSE Some([ name |-> Unwrap(Unwrap(found).name),
                         docs |-> Unwrap(found).docs ])

\* One element of the map over the fields of a plain struct: the Field built
\* from the item found in the same crate's index; None where an unwrap panics.
FieldOf(field, current_crate) ==
    IF Slot(current_crate) = None
    THEN None
    ELSE LET found == IndexGet(Krate(current_crate), field)
         IN  IF found = None \/ Unwrap(found).name = None
             THEN None
             ELSE Some([ name |-> Unwrap(Unwrap(found).name),
                         docs |-> Unwrap(found).docs ])

\* A mutant of DocumentStruct: the fields are collected last to first.
DocumentStructReversedFields(item, current_crate) ==
    LET stru   == item.inner
        n      == Len(stru.fields)
        fields == IF stru.skind = "Plain"
                  THEN [ i \in 1 .. n |->
                           FieldOf(stru.fields[n + 1 - i], current_crate) ]
                  ELSE << >>
    IN  IF item.name = None \/ \E i \in DOMAIN fields : fields[i] = None
        THEN None
        ELSE Some([ name   |-> Unwrap(item.name),
                    docs   |-> item.docs,
                    fields |-> [ i \in DOMAIN fields |-> Unwrap(fields[i]) ] ])

\* A mutant of DocumentStruct: the fields of a tuple struct are collected too.
DocumentStructTupleFields(item, current_crate) ==
    LET stru   == item.inner
        fields == IF stru.skind \in { "Plain", "Tuple" }
                  THEN [ i \in 1 .. Len(stru.fields) |->
                           FieldOf(stru.fields[i], current_crate) ]
                  ELSE << >>
    IN  IF item.name = None \/ \E i \in DOMAIN fields : fields[i] = None
        THEN None
        ELSE Some([ name   |-> Unwrap(item.name),
                    docs   |-> item.docs,
                    fields |-> [ i \in DOMAIN fields |-> Unwrap(fields[i]) ] ])

\* The StructDocument that document_struct hands to write(); None where it
\* panics before (item.name unwrap, field lookup, field name unwrap).
DocumentStruct(item, current_crate) ==
    LET stru   == item.inner
        fields == IF stru.skind = "Plain"
                  THEN [ i \in 1 .. Len(stru.fields) |->
                           FieldOf(stru.fields[i], current_crate) ]
                  ELSE << >>
    IN  IF item.name = None \/ \E i \in DOMAIN fields : fields[i] = None
        THEN None
        ELSE Some([ name   |-> Unwrap(item.name),
                    docs   |-> item.docs,
                    fields |-> [ i \in DOMAIN fields |-> Unwrap(fields[i]) ] ])

\* ------------------------------------------------------------------------
\* The walk
\* ------------------------------------------------------------------------

\* A mutant of Insert: the pair is not recorded.
InsertNothing(set, pair) == set

\* HashSet::insert, the set afterwards.
Insert(set, pair) == set \cup { pair }

\* The arguments of the pending item_explorer call.
Cur == Unwrap(call)

\* A mutant of CurPair: the visited set is keyed by the id alone.
CurPairIgnoresCrate == << 0, Cur.id >>

CurPair == << Cur.crate, Cur.id >>

\* A mutant of Fresh: the result of the insert is ignored.
FreshAlways == pc = "call"

\* `!visited.insert(..)` is false: the call goes on to the lookup.
Fresh == pc = "call" /\ CurPair \notin visited

\* `item` of the pending call; None where an unwrap of the lookup panics.
Resolved ==
    IF Slot(Cur.crate) = None
    THEN None
    ELSE Lookup(Krate(Cur.crate), Cur.id)

CurArm == Arm(Unwrap(Resolved).inner.kind)

\* What a dispatch records: the call's arguments, the item and the arm.
Dispatch(arm) ==
    [ crate |-> Cur.crate, id |-> Cur.id,
      item  |-> Unwrap(Resolved).id, arm |-> arm ]

Panic(reason) ==
    /\ pc' = "aborted"
    /\ panic' = Some(reason)
    /\ call' = None

Init ==
    /\ crates \in Catalogs
    /\ visited = { }
    /\ pc = "start"
    /\ call = None
    /\ stack = << >>
    /\ dispatched = EmptyBag
    /\ emitted = EmptyBag
    /\ written = EmptyBag
    /\ panic = None

\* start_krate: item_explorer(krate.root, 0, ..).
StartKrate ==
    /\ pc = "start"
    /\ IF Slot(0) = None
       THEN /\ Panic("unwrap_slot")
       ELSE /\ call' = Some([ id |-> Krate(0).root, crate |-> 0 ])
            /\ pc' = "call"
            /\ panic' = panic
    /\ UNCHANGED << crates, visited, stack, dispatched, emitted, written >>

\* item_explorer on a visited pair: the insert fails, return.
ExploreVisited ==
    /\ pc = "call"
    /\ CurPair \in visited
    /\ pc' = "loop"
    /\ call' = None
    /\ UNCHANGED << crates, visited, stack, dispatched, emitted, written,
                    panic >>

\* item_explorer, a panic at the lookup or in a todo!() arm.
ExplorePanic ==
    /\ Fresh
    /\ visited' = Insert(visited, CurPair)
    /\ \/ /\ Slot(Cur.crate) = None
          /\ Panic("unwrap_slot")
          /\ UNCHANGED dispatched
       \/ /\ Slot(Cur.crate) # None
          /\ Resolved = None
          /\ Panic("unwrap_root")
          /\ UNCHANGED dispatched
       \/ /\ Resolved # None
          /\ CurArm = "todo"
          /\ dispatched' = Bump(dispatched, Dispatch("todo"))
          /\ Panic("todo")
    /\ UNCHANGED << crates, stack, emitted, written >>

\* item_explorer, Module arm: module_explorer starts its loop.
ExploreModule ==
    /\ Fresh
    /\ Resolved # None
    /\ CurArm = "module"
    /\ Len(stack) < MaxDepth
    /\ visited' = Insert(visited, CurPair)
    /\ dispatched' = Bump(dispatched, Dispatch("module"))
    /\ stack' = Append(stack, [ fn    |-> "module_explorer",
                                crate |-> Cur.crate,
                                items |-> Unwrap(Resolved).inner.items,
                                i     |-> 1 ])
    /\ pc' = "loop"
    /\ call' = None
    /\ UNCHANGED << crates, emitted, written, panic >>

\* item_explorer, Enum arm: enum_explorer starts its for_each.
ExploreEnum ==
    /\ Fresh
    /\ Resolved # None
    /\ CurArm = "enum"
    /\ Len(stack) < MaxDepth
    /\ visited' = Insert(visited, CurPair)
    /\ dispatched' = Bump(dispatched, Dispatch("enum"))
    /\ stack' = Append(stack, [ fn    |-> "enum_explorer",
                                crate |-> Cur.crate,
                                items |-> Unwrap(Resolved).inner.variants,
                                i     |-> 1 ])
    /\ pc' = "loop"
    /\ call' = None
    /\ UNCHANGED << crates, emitted, written, panic >>

\* item_explorer, Use arm: `return item_explorer(target..)`, or the panic of
\* used.id.unwrap().  The call is in tail position: nothing is left to do in
\* this invocation, so no frame is kept for it.
ExploreUse ==
    /\ Fresh
    /\ Resolved # None
    /\ CurArm = "use"
    /\ visited' = Insert(visited, CurPair)
    /\ dispatched' = Bump(dispatched, Dispatch("use"))
    /\ LET target == UseTarget(Unwrap(Resolved).inner, Cur.crate)
       IN  IF target.id = None
           THEN Panic("unwrap_id")
           ELSE /\ call' = Some([ id |-> Unwrap(target.id),
                                  crate |-> target.crate ])
                /\ pc' = "call"
                /\ panic' = panic
    /\ UNCHANGED << crates, stack, emitted, written >>

\* item_explorer, Struct arm: document_struct, which writes the document or
\* panics on the way.
ExploreStruct ==
    /\ Fresh
    /\ Resolved # None
    /\ CurArm = "struct"
    /\ visited' = Insert(visited, CurPair)
    /\ dispatched' = Bump(dispatched, Dispatch("struct"))
    /\ emitted' = Bump(emitted, << Cur.crate, Unwrap(Resolved).id >>)
    /\ LET doc == DocumentStruct(Unwrap(Resolved), Cur.crate)
       IN  IF doc = None
           THEN /\ Panic("unwrap_struct")
                /\ UNCHANGED written
           ELSE /\ written' = Bump(written,
                                   [ crate |-> Cur.crate,
                                     item  |-> Unwrap(Resolved).id,
                                     doc   |-> Unwrap(doc) ])
                /\ pc' = "loop"
                /\ call' = None
                /\ panic' = panic
    /\ UNCHANGED << crates, stack >>

\* item_explorer, an arm with an empty body.
ExploreNoOp ==
    /\ Fresh
    /\ Resolved # None
    /\ CurArm = "noop"
    /\ visited' = Insert(visited, CurPair)
    /\ dispatched' = Bump(dispatched, Dispatch("noop"))
    /\ pc' = "loop"
    /\ call' = None
    /\ UNCHANGED << crates, stack, emitted, written, panic >>

\* A mutant of LoopStep: the list is walked last to first.
LoopStepReversed ==
    /\ pc = "loop"
    /\ stack # << >>
    /\ LET top == stack[Len(stack)]
       IN  /\ top.i <= Len(top.items)
           /\ call' = Some([ id    |-> top.items[Len(top.items) + 1 - top.i],
                             crate |-> top.crate ])
           /\ stack' = [ stack EXCEPT ![Len(stack)].i = top.i + 1 ]
    /\ pc' = "call"
    /\ UNCHANGED << crates, visited, dispatched, emitted, written, panic >>

\* module_explorer / enum_explorer: the next iteration calls item_explorer.
LoopStep ==
    /\ pc = "loop"
    /\ stack # << >>
    /\ LET top == stack[Len(stack)]
       IN  /\ top.i <= Len(top.items)
           /\ call' = Some([ id |-> top.items[top.i], crate |-> top.crate ])
           /\ stack' = [ stack EXCEPT ![Len(stack)].i = top.i + 1 ]
    /\ pc' = "call"
    /\ UNCHANGED << crates, visited, dispatched, emitted, written, panic >>

\* module_explorer / enum_explorer: the loop is over, return to the caller.
LoopEnd ==
    /\ pc = "loop"
    /\ stack # << >>
    /\ stack[Len(stack)].i > Len(stack[Len(stack)].items)
    /\ stack' = SubSeq(stack, 1, Len(stack) - 1)
    /\ UNCHANGED << crates, visited, pc, call, dispatched, emitted, written,
                    panic >>

\* start_krate returns.
Finish ==
    /\ pc = "loop"
    /\ stack = << >>
    /\ pc' = "done"
    /\ UNCHANGED << crates, visited, call, stack, dispatched, emitted, written,
                    panic >>

Next ==
    \/ StartKrate
    \/ ExploreVisited
    \/ ExplorePanic
    \/ ExploreModule
    \/ ExploreEnum
    \/ ExploreUse
    \/ ExploreStruct
    \/ ExploreNoOp
    \/ LoopStep
    \/ LoopEnd
    \/ Finish

Spec == Init /\ [][Next]_vars

\* The program is one thread that runs until it returns or panics.
FairSpec == Spec /\ WF_vars(Next)

\* item_explorer takes the visited set from its caller: the walk entered with
\* a set that is empty, as main builds it, or that already holds the pair
\* (0, 1), whatever record the primary crate keeps under id 1.
RevisitInit ==
    /\ crates \in Catalogs
    /\ visited \in { { }, { << 0, 1 >> } }
    /\ pc = "start"
    /\ call = None
    /\ stack = << >>
    /\ dispatched = EmptyBag
    /\ emitted = EmptyBag
    /\ written = EmptyBag
    /\ panic = None

RevisitSpec == RevisitInit /\ [][Next]_vars

\* ------------------------------------------------------------------------
\* Properties
\* ------------------------------------------------------------------------

\* The stack bound never stops the walk: a push always finds room.
DepthBoundNotHit == Len(stack) < MaxDepth

\* The pairs that have been dispatched.
DispatchedPairs == { << k.crate, k.id >> : k \in DOMAIN dispatched }

\* C1: in one traversal the kind dispatch of item_explorer runs at most once
\* for every (crate, id) pair, however many paths lead to the pair.
C1_IdempotentVisitation ==
    /\ \A k \in DOMAIN dispatched : dispatched[k] <= 1
    /\ \A k1, k2 \in DOMAIN dispatched :
         (k1.crate = k2.crate /\ k1.id = k2.id) => k1 = k2

\* A second path has led to a pair that was dispatched before.
C1_Witness == pc = "call" /\ CurPair \in DispatchedPairs

\* C2: the traversal started at (crate 0, root of crate 0) eventually stops,
\* by returning or by a panic, also when re-exports form a cycle.
C2_CycleTermination == <>(pc \in { "done", "aborted" })

\* A walk that went from the primary crate into the dependency and, through a
\* re-export of the dependency, back into the primary crate has returned.
C2_Witness ==
    /\ pc = "done"
    /\ << 1, U32Max >> \in DispatchedPairs
    /\ << 0, U32Max >> \in DispatchedPairs

\* The present crates, and the (crate, id) pairs a walk can be called on.
PresentCrates == { c \in DOMAIN crates : IsSome(crates[c]) }

Nodes == PresentCrates \X (Ids \cup { U32Max })

\* The record of a pair: the index entry of the id, else the crate's root.
RecordOf(n) ==
    LET k == Krate(n[1])
    IN  IF n[2] \in DOMAIN k.index THEN k.index[n[2]] ELSE k.index[k.root]

\* The crate a re-export's first segment names: the present slots of that
\* name (the code takes the first of them).
NamedCrates(source) ==
    IF Head(source) \in { "crate", "super" }
    THEN { }
    ELSE { c \in PresentCrates : Unwrap(crates[c])[1] = Head(source) }

\* The pairs one edge away from n: the children of a module, the variants of
\* an enum, the target of a re-export that resolves.
Edges(n) ==
    LET inner == RecordOf(n).inner
    IN  CASE inner.kind = "Module" ->
               { << n[1], inner.items[i] >> : i \in DOMAIN inner.items }
          [] inner.kind = "Enum" ->
               { << n[1], inner.variants[i] >> : i \in DOMAIN inner.variants }
          [] inner.kind = "Use" ->
               IF NamedCrates(inner.source) # { }
               THEN { << CHOOSE c \in NamedCrates(inner.source) :
                            \A d \in NamedCrates(inner.source) : c <= d,
                         U32Max >> }
               ELSE IF IsSome(inner.id)
                    THEN { << n[1], Unwrap(inner.id) >> }
                    ELSE { }
          [] OTHER -> { }

RECURSIVE ReachFrom(_)
ReachFrom(S) ==
    LET T == S \cup UNION { Edges(n) : n \in S }
    IN  IF T = S THEN S ELSE ReachFrom(T)

\* Everything reachable from (crate 0, root of crate 0).
Reachable == ReachFrom({ << 0, Krate(0).root >> })

\* C3: when the traversal completes without a panic, every struct reachable
\* from (crate 0, root) through module children, enum variants and resolved
\* re-exports, with the root fallback for missing ids, went to the emitter.
C3_Reachability ==
    pc = "done" =>
        \A n \in Reachable :
            RecordOf(n).inner.kind = "Struct" =>
                << n[1], RecordOf(n).id >> \in DOMAIN emitted

\* A completed walk whose only way to a struct of the dependency leads
\* through a re-export of the primary crate.
C3_Witness ==
    /\ pc = "done"
    /\ \E n \in Reachable :
         n[1] = 1 /\ RecordOf(n).inner.kind = "Struct"

\* C4: item_explorer on a pair (crate, X) that is not visited yet, with X
\* absent from the crate's index, dispatches on the crate's root record (a
\* module) and does not panic on the lookup.
C4_RootFallback ==
    [][ (Fresh /\ Slot(Cur.crate) # None
           /\ Cur.id \notin DOMAIN Krate(Cur.crate).index)
        => /\ [ crate |-> Cur.crate, id |-> Cur.id,
                item  |-> Krate(Cur.crate).root, arm |-> "module" ]
                  \in DOMAIN dispatched'
           /\ pc' = "loop"
           /\ panic' = None ]_vars

\* A missing id other than the sentinel was dispatched as its crate's root.
C4_Witness ==
    \E k \in DOMAIN dispatched :
        /\ k.id \in Ids
        /\ k.id \notin DOMAIN Krate(k.crate).index
        /\ k.item = Krate(k.crate).root

\* The pending call is a first visit of a re-export: the Use payload.
FreshUse ==
    /\ Fresh
    /\ Resolved # None
    /\ Unwrap(Resolved).inner.kind = "Use"

Used == Unwrap(Resolved).inner

Reserved(source) == Head(source) \in { "crate", "super" }

\* The re-exports dispatched so far, each with the crate it was found in.
DispatchedUses ==
    { [ crate |-> k.crate, used |-> Krate(k.crate).index[k.item].inner ] :
        k \in { d \in DOMAIN dispatched : d.arm = "use" } }

\* C5: a dispatched re-export whose first segment is "crate" or "super" and
\* that carries the pre-resolved id Y is followed by item_explorer on
\* (current crate, Y); no other crate is entered.
C5_SameUnitReExport ==
    [][ (FreshUse /\ Reserved(Used.source) /\ IsSome(Used.id))
        => /\ pc' = "call"
           /\ call' = Some([ id |-> Unwrap(Used.id), crate |-> Cur.crate ]) ]_vars

\* A "super" re-export was dispatched and its target is the pending call.
C5_Witness ==
    /\ pc = "call"
    /\ \E u \in DispatchedUses :
         /\ Head(u.used.source) = "super"
         /\ call = Some([ id |-> Unwrap(u.used.id), crate |-> u.crate ])

\* C6: a dispatched re-export whose first segment is the name of a present
\* catalog slot is followed by item_explorer on (that crate, u32::MAX),
\* whatever the rest of the path and the pre-resolved id; that call, when the
\* pair is new, dispatches on the crate's root module.
C6_CrossUnitReExport ==
    /\ [][ (FreshUse /\ NamedCrates(Used.source) # { })
           => /\ pc' = "call"
              /\ \E c \in NamedCrates(Used.source) :
                   call' = Some([ id |-> U32Max, crate |-> c ]) ]_vars
    /\ [][ (Fresh /\ Cur.id = U32Max /\ Slot(Cur.crate) # None)
           => /\ [ crate |-> Cur.crate, id |-> U32Max,
                   item  |-> Krate(Cur.crate).root, arm |-> "module" ]
                     \in DOMAIN dispatched'
              /\ stack'[Len(stack')].items
                   = Krate(Cur.crate).index[Krate(Cur.crate).root].inner.items
            ]_vars

\* A re-export with a deep path and a pre-resolved id led into the
\* dependency, whose root module was dispatched for the sentinel id.
C6_Witness ==
    /\ \E u \in DispatchedUses :
         /\ u.crate = 0
         /\ u.used.source = << "dep", "a", "b" >>
         /\ IsSome(u.used.id)
    /\ \E k \in DOMAIN dispatched :
         k.crate = 1 /\ k.id = U32Max /\ k.arm = "module"

\* C7: a dispatched re-export whose first segment is not reserved and names
\* no present catalog slot (also when the slot of that dependency is empty)
\* is followed by item_explorer on (current crate, pre-resolved id).
C7_UnmatchedReExport ==
    [][ (FreshUse /\ ~Reserved(Used.source)
           /\ NamedCrates(Used.source) = { } /\ IsSome(Used.id))
        => /\ pc' = "call"
           /\ call' = Some([ id |-> Unwrap(Used.id), crate |-> Cur.crate ]) ]_vars

\* A re-export naming the dependency whose json was missing was dispatched
\* and its pre-resolved id is the pending call.
C7_Witness ==
    /\ pc = "call"
    /\ crates[1] = None
    /\ \E u \in DispatchedUses :
         /\ Head(u.used.source) = "dep"
         /\ call = Some([ id |-> Unwrap(u.used.id), crate |-> u.crate ])

\* C8: a dispatched re-export that resolves to the current crate (reserved
\* first segment, or no catalog name matches) and has no pre-resolved id
\* panics; one whose first segment names a present crate goes on without it.
C8_MissingIdIsFatal ==
    /\ [][ (FreshUse /\ NamedCrates(Used.source) = { } /\ Used.id = None)
           => pc' = "aborted" ]_vars
    /\ [][ (FreshUse /\ NamedCrates(Used.source) # { } /\ Used.id = None)
           => pc' = "call" ]_vars

\* The walk panicked on a re-export without a pre-resolved id.
C8_Witness ==
    /\ pc = "aborted"
    /\ panic = Some("unwrap_id")
    /\ \E u \in DispatchedUses : u.used.id = None

\* The kinds without a traversal policy.
UnsupportedKinds ==
    { "Union", "TraitAlias", "ExternType", "ExternCrate", "AssocConst",
      "Primitive" }

\* C9: dispatching an item of an unsupported kind panics, and after the panic
\* nothing more is marked visited, dispatched or emitted.
C9_UnsupportedKindAborts ==
    /\ [][ (Fresh /\ Resolved # None
              /\ Unwrap(Resolved).inner.kind \in UnsupportedKinds)
           => pc' = "aborted" ]_vars
    /\ [][ pc = "aborted"
           => /\ pc' = "aborted"
              /\ UNCHANGED << visited, dispatched, emitted, written >> ]_vars

\* The walk panicked on an unsupported kind while a sibling that was never
\* visited is still waiting in the loop of the module.
C9_Witness ==
    /\ pc = "aborted"
    /\ panic = Some("todo")
    /\ stack # << >>
    /\ LET top == stack[Len(stack)]
       IN  \E j \in top.i .. Len(top.items) :
             << top.crate, top.items[j] >> \notin visited

\* C10: document_struct is called exactly once for every dispatched pair
\* whose item is a struct, and no struct is handed to it twice.
C10_OneEmissionPerStruct ==
    /\ \A k \in DOMAIN dispatched :
         Krate(k.crate).index[k.item].inner.kind = "Struct"
           => /\ << k.crate, k.item >> \in DOMAIN emitted
              /\ emitted[<< k.crate, k.item >>] = 1
    /\ \A e \in DOMAIN emitted :
         /\ emitted[e] = 1
         /\ \E k \in DOMAIN dispatched :
              /\ << k.crate, k.item >> = e
              /\ Krate(k.crate).index[k.item].inner.kind = "Struct"

\* A struct that was emitted is about to be walked again.
C10_Witness == pc = "call" /\ CurPair \in DOMAIN emitted

\* The index entry behind a dispatch, an emission or a written document.
ItemAt(crate, item) == Krate(crate).index[item]

\* What the Plain arm of document_struct must collect for a struct.
ExpectedFields(crate, item) ==
    LET stru == ItemAt(crate, item).inner
    IN  IF stru.skind = "Plain"
        THEN [ i \in 1 .. Len(stru.fields) |->
                 [ name |-> Unwrap(ItemAt(crate, stru.fields[i]).name),
                   docs |-> ItemAt(crate, stru.fields[i]).docs ] ]
        ELSE << >>

\* C11: a named-field struct reaches the output file once, with one
\* (name, docs) entry per declared field, in declared order, each read from
\* the record stored under the field's id in the same crate; unit and tuple
\* structs are written with no fields.
C11_NamedFieldEmission ==
    \A w \in DOMAIN written :
        /\ written[w] = 1
        /\ w.doc.fields = ExpectedFields(w.crate, w.item)

\* A struct with two fields of different names and docs was written.
C11_Witness ==
    \E w \in DOMAIN written :
        /\ Len(w.doc.fields) = 2
        /\ w.doc.fields[1] # w.doc.fields[2]

\* The list a dispatched module or enum fans out over.
ChildrenOf(crate, item) ==
    LET inner == ItemAt(crate, item).inner
    IN  CASE inner.kind = "Module" -> inner.items
          [] inner.kind = "Enum"   -> inner.variants
          [] OTHER                 -> << >>

\* The loop over that list is still on the call stack.
InProgress(crate, item) ==
    \E f \in DOMAIN stack :
        stack[f].crate = crate /\ stack[f].items = ChildrenOf(crate, item)

\* The dispatches whose record is an enum.
DispatchedEnums ==
    { k \in DOMAIN dispatched : ItemAt(k.crate, k.item).inner.kind = "Enum" }

\* C12: an enum is walked but never emitted: each of its variants is visited
\* and dispatched once the enum's loop has returned, while neither the enum
\* nor a variant record goes to the emitter.
C12_SumRecordAsymmetry ==
    /\ \A k \in DispatchedEnums :
         /\ << k.crate, k.item >> \notin DOMAIN emitted
         /\ (pc # "aborted" /\ ~InProgress(k.crate, k.item))
              => \A j \in DOMAIN ChildrenOf(k.crate, k.item) :
                   LET v == << k.crate, ChildrenOf(k.crate, k.item)[j] >>
                   IN  v \in visited /\ v \in DispatchedPairs
    /\ \A e \in DOMAIN emitted :
         ItemAt(e[1], e[2]).inner.kind \notin { "Enum", "Variant" }

\* A completed walk dispatched an enum one of whose variants is a variant
\* record, itself dispatched.
C12_Witness ==
    /\ pc = "done"
    /\ \E k \in DispatchedEnums :
         \E j \in DOMAIN ChildrenOf(k.crate, k.item) :
            \E d \in DOMAIN dispatched :
               /\ d.crate = k.crate
               /\ d.id = ChildrenOf(k.crate, k.item)[j]
               /\ ItemAt(d.crate, d.item).inner.kind = "Variant"

\* The children a frame has called so far are the first i - 1 of its list;
\* all of them are visited, the last one once the call on it has begun.
FrameInOrder(f) ==
    \A j \in DOMAIN stack[f].items :
        (j < stack[f].i - 1 \/ (j = stack[f].i - 1 /\ ~(f = Len(stack) /\ pc = "call")))
            => << stack[f].crate, stack[f].items[j] >> \in visited

\* C13: module_explorer and enum_explorer call item_explorer on every element
\* of the list, in list order, each call returning to the loop before the
\* next element is taken; a loop that has returned has visited its whole list.
C13_FullOrderedFanOut ==
    /\ [](\A f \in DOMAIN stack : FrameInOrder(f))
    /\ [](pc # "aborted" =>
            \A k \in DOMAIN dispatched :
               ~InProgress(k.crate, k.item) =>
                  \A j \in DOMAIN ChildrenOf(k.crate, k.item) :
                     << k.crate, ChildrenOf(k.crate, k.item)[j] >> \in visited)
    /\ [][ (pc = "loop" /\ pc' = "call")
           => /\ Len(stack') = Len(stack)
              /\ stack[Len(stack)].i <= Len(stack[Len(stack)].items)
              /\ stack'[Len(stack)].i = stack[Len(stack)].i + 1
              /\ call' = Some([ id    |-> stack[Len(stack)].items[stack[Len(stack)].i],
                                crate |-> stack[Len(stack)].crate ]) ]_vars

\* A loop over two different children is about to call the second one.
C13_Witness ==
    /\ pc = "call"
    /\ stack # << >>
    /\ LET top == stack[Len(stack)]
       IN  /\ Len(top.items) = 2
           /\ top.i = 3
           /\ top.items[1] # top.items[2]
           /\ << top.crate, top.items[2] >> \notin visited

\* C14: item_explorer on a pair that is already visited returns at once: no
\* lookup, no dispatch, no emission, no panic, whatever the record behind the
\* pair is.
C14_RevisitIsNoOp ==
    [][ (pc = "call" /\ << Cur.crate, Cur.id >> \in visited)
        => /\ pc' = "loop"
           /\ UNCHANGED << visited, dispatched, emitted, written, stack, panic >> ]_vars

\* A loop calls a visited pair whose record is of a kind that a dispatch
\* would answer with todo!().
C14_Witness ==
    /\ pc = "call"
    /\ stack # << >>
    /\ << Cur.crate, Cur.id >> \in visited
    /\ Resolved # None
    /\ Unwrap(Resolved).inner.kind \in TodoKinds

\* The dispatches of crate c that ran on its root record.
RootDispatches(c) ==
    { k \in DOMAIN dispatched : k.crate = c /\ k.item = Krate(c).root }

\* The visited ids of crate c that its index does not hold.
MissingVisited(c) ==
    { id \in Ids \cup { U32Max } :
        << c, id >> \in visited /\ id \notin DOMAIN Krate(c).index }

\* C15: the root record of a crate is dispatched once under its own id and
\* once more for every distinct missing id that is visited, and no more; each
\* such dispatch ran once.
C15_BoundedRootReWalk ==
    \A c \in PresentCrates :
        LET here     == { k \in DOMAIN dispatched : k.crate = c }
            roots    == RootDispatches(c)
            missing  == MissingVisited(c)
            root     == Krate(c).root
            children == { ChildrenOf(c, root)[j] :
                            j \in DOMAIN ChildrenOf(c, root) }
        IN  /\ Cardinality(roots) <= 1 + Cardinality(missing)
            /\ \A k \in roots :
                 /\ dispatched[k] = 1
                 /\ k.id = root \/ k.id \in missing
            /\ \A k \in here :
                 k.id \in children
                   => /\ dispatched[k] = 1
                      /\ \A k2 \in here : k2.id = k.id => k2 = k

\* The root of the primary crate was dispatched under its own id and under a
\* missing id.
C15_Witness ==
    \E k1, k2 \in RootDispatches(0) :
        k1.id = Krate(0).root /\ k2.id # Krate(0).root

\* C16: the crate of a re-export is found by comparing the first path
\* segment with the names of the catalog slots in slot order: empty slots are
\* passed over and the first slot of that name is entered.
C16_FirstMatchWins ==
    /\ [][ (FreshUse /\ NamedCrates(Used.source) # { })
           => \E c \in NamedCrates(Used.source) :
                /\ \A d \in NamedCrates(Used.source) : c <= d
                /\ IsSome(crates[c])
                /\ call' = Some([ id |-> U32Max, crate |-> c ]) ]_vars
    /\ [][ (FreshUse /\ \E c \in DOMAIN crates : crates[c] = None)
           => /\ panic' # Some("unwrap_slot")
              /\ pc' = "call" => Unwrap(call').crate \in PresentCrates ]_vars

\* Two slots carry the name of a dispatched re-export, and the walk is at
\* the first of them.
C16_Witness ==
    /\ pc = "call"
    /\ call = Some([ id |-> U32Max, crate |-> 0 ])
    /\ \E u \in DispatchedUses : Cardinality(NamedCrates(u.used.source)) = 2

C18_CrateIndexPresent ==
    /\ pc = "call" => Cur.crate \in DOMAIN crates /\ IsSome(crates[Cur.crate])
    /\ panic # Some("unwrap_slot")

\* The walk has entered the dependency slot.
C18_Witness == pc = "call" /\ Cur.crate = 1 /\ << 1, U32Max >> \notin visited

\* C19: ids are scoped by crate: a pair is new unless that very (crate, id)
\* was visited, so an id visited in one crate is still dispatched in another.
C19_IdsScopedPerCrate ==
    [][ (pc = "call" /\ << Cur.crate, Cur.id >> \notin visited
           /\ Slot(Cur.crate) # None)
        => /\ << Cur.crate, Cur.id >> \in visited'
           /\ \E k \in DOMAIN dispatched' :
                /\ k.crate = Cur.crate
                /\ k.id = Cur.id
                /\ k \notin DOMAIN dispatched ]_vars

\* The same id was dispatched in the primary crate and in the dependency.
C19_Witness ==
    \E id \in Ids :
        /\ << 0, id >> \in DispatchedPairs
        /\ << 1, id >> \in DispatchedPairs

\* The struct cannot be documented: it or one of its named fields has no
\* name, or a named field's id is not in the index of the crate.
Undocumentable(crate, item) ==
    \/ item.name = None
    \/ /\ item.inner.skind = "Plain"
       /\ \E i \in DOMAIN item.inner.fields :
            \/ item.inner.fields[i] \notin DOMAIN Krate(crate).index
            \/ ItemAt(crate, item.inner.fields[i]).name = None

\* C20: the field lookup of document_struct has no root fallback: a
\* dispatched struct with a missing field id, a nameless field or no name
\* panics and nothing is written for it.
C20_NoFallbackForFields ==
    [][ (pc = "call" /\ << Cur.crate, Cur.id >> \notin visited
           /\ Resolved # None
           /\ Unwrap(Resolved).inner.kind = "Struct"
           /\ Undocumentable(Cur.crate, Unwrap(Resolved)))
        => /\ pc' = "aborted"
           /\ panic' = Some("unwrap_struct")
           /\ written' = written ]_vars

\* The walk panicked in a named struct one of whose field ids is missing.
C20_Witness ==
    /\ panic = Some("unwrap_struct")
    /\ \E e \in DOMAIN emitted :
         /\ ItemAt(e[1], e[2]).name # None
         /\ ItemAt(e[1], e[2]).inner.skind = "Plain"
         /\ \E i \in DOMAIN ItemAt(e[1], e[2]).inner.fields :
              ItemAt(e[1], e[2]).inner.fields[i] \notin DOMAIN Krate(e[1]).index

====
